---- MODULE Spec2Model ----
(***************************************************************************)
(* A model of the VIDNet re-implementation's glue code:                    *)
(*   - train.py: main -> parse_args -> train (prepare_model,               *)
(*     prepare_logger, Trainer construction, trainer.fit);                 *)
(*   - misc/config.py: db_read_sequences and the phase enum;               *)
(*   - src/dataloader/davis2017.py: DAVISLoader.__init__ (year and         *)
(*     single_object checks, sequence loading, clip slicing) and its       *)
(*     accessors.                                                          *)
(* Python values of different types never compare equal; the model keeps   *)
(* that by tagging values with their type where the code compares them.    *)
(***************************************************************************)
EXTENDS Integers, Sequences, FiniteSets, TLC

VARIABLES
    \* ---- train.py ----
    tpc,        \* position of main: "main", "parsed", "raised" (by parse_args),
                \* "fit", "train_raised", or "idle"
    args,       \* the argparse.Namespace handed from main to parse_args and train
    osfs,       \* the file system as train.py sees it
    exc,        \* the exception that ended main ("none" while running)
    run,        \* what train built: model, logger, callbacks, Trainer, fit's ckpt_path
    \* ---- misc/config.py and DAVISLoader ----
    lpc,        \* position of the loader scenario
    db,         \* db_read_info().sequences: the database, a list of records
    dirs,       \* per sequence name: the directory's state under cfg.PATH.SEQUENCES
    cfgPathSequences, \* cfg.PATH.SEQUENCES (module-global, set by the loader)
    self,       \* the DAVISLoader under construction / constructed
    lexc,       \* the exception that ended the loader operation
    out         \* the result of the last accessor or db_read_sequences call

train_vars == <<tpc, args, osfs, exc, run>>
loader_vars == <<lpc, db, dirs, cfgPathSequences, self, lexc, out>>
vars == <<tpc, args, osfs, exc, run, lpc, db, dirs, cfgPathSequences, self, lexc, out>>

(***************************************************************************)
(* Python values.                                                          *)
(***************************************************************************)
\* Python's None where the other values of the attribute are strings.
NoneVal == "<None>"

\* bool(x) of an optional string: None and "" are falsy.
Truthy(x) == x # NoneVal /\ x # ""

\* str(x) as an f-string renders it.
Str(x) == IF x = NoneVal THEN "None" ELSE x

\* Values of args.gpus and of Trainer(devices=...): an int, a str or a list of ints.
PyInt(n) == [kind |-> "int", i |-> n, s |-> "", l |-> <<>>]
PyStr(t) == [kind |-> "str", i |-> 0, s |-> t, l |-> <<>>]
PyList(q) == [kind |-> "list", i |-> 0, s |-> "", l |-> q]
\* A member of the enum misc.config.phase, by its value, and None.
PyEnum(t) == [kind |-> "enum", i |-> 0, s |-> t, l |-> <<>>]
PyNone == [kind |-> "none", i |-> 0, s |-> "", l |-> <<>>]

\* Python's == between such values: values of different types are unequal.
PyEq(a, b) == a.kind = b.kind /\ a.i = b.i /\ a.s = b.s /\ a.l = b.l

(***************************************************************************)
(* train.py: the file system and the command line.                         *)
(***************************************************************************)
ConfigPath == "cfg.yaml"
CkptPath == "last.ckpt"
LogDirDefault == "lightning_logs/vidnet"

\* What the path args.config names: nothing, a directory, or a YAML file with
\* or without the keys parse_args reads.
ConfigStates == {"missing", "dir", "full", "no_model_args", "no_training_args", "no_max_epochs"}

\* yaml.safe_load of the config file, as the keys parse_args reads.
ConfigYaml(c) ==
    [has_model_args |-> c \in {"full", "no_training_args", "no_max_epochs"},
     model_args |-> "model_args@" \o c,
     has_training_args |-> c \in {"full", "no_model_args", "no_max_epochs"},
     training_args |-> "training_args@" \o c,
     has_max_epochs |-> c \in {"full", "no_model_args"},
     max_epochs |-> 7]

PathStates == {"missing", "file", "dir"}

\* os.path.exists / os.path.isdir of the one path of each kind the run names.
\* The empty path names nothing.
path_exists(fs, what, p) == p # "" /\ fs[what] # "missing"
path_isdir(fs, what, p) == p # "" /\ fs[what] = "dir"

GpuArgs == {PyInt(-1), PyList(<<0, 1>>), PyList(<<-1>>)}

\* The namespaces argparse can hand to parse_args (main, lines 140-205).
ArgSets ==
    [config : {ConfigPath},
     prev_ckpt : {NoneVal, "", CkptPath},
     resume : BOOLEAN,
     version : {"0"},
     log_dir : {"", LogDirDefault},
     fast_dev_run : BOOLEAN,
     pre : {"", "exp"},
     gpus : GpuArgs,
     logger : {"tensorboard", "wandb"},
     uid : {NoneVal, "u1"},
     filled : {{}},
     model_args : {"<unset>"},
     training_args : {"<unset>"},
     max_epochs : {0}]

FileSystems ==
    [config : ConfigStates, ckpt : PathStates, logdir : PathStates, wandb : BOOLEAN]

NoRun ==
    [model_from |-> NoneVal, logger |-> "<unset>", log_path |-> NoneVal,
     ckpt_dirpath |-> "", ckpt_filename |-> "", callbacks |-> <<>>,
     devices |-> PyInt(0), max_epochs |-> 0, fast_dev_run |-> FALSE,
     enable_checkpointing |-> FALSE, watched |-> FALSE, trainer |-> FALSE,
     fit |-> FALSE, fit_ckpt_path |-> NoneVal]

\* The train.py variables while no run of main is modelled.
NoArgs ==
    [config |-> "", prev_ckpt |-> NoneVal, resume |-> FALSE, version |-> "",
     log_dir |-> "", fast_dev_run |-> FALSE, pre |-> "", gpus |-> PyInt(-1),
     logger |-> "", uid |-> NoneVal, filled |-> {}, model_args |-> "<unset>",
     training_args |-> "<unset>", max_epochs |-> 0]
NoFiles == [config |-> "missing", ckpt |-> "missing", logdir |-> "missing", wandb |-> FALSE]

(***************************************************************************)
(* parse_args (train.py 118-136).  The result is the exception raised (or  *)
(* "none"), the namespace as the call left it, and the file system as the  *)
(* call left it.                                                           *)
(***************************************************************************)
\* A slip: the resume check of lines 126-127 left out.
parse_args_validate_no_resume_check(a, fs) ==
    IF ~path_exists(fs, "config", a.config)
    THEN [exc |-> "FileNotFoundError", fs |-> fs]
    ELSE IF Truthy(a.prev_ckpt) /\ ~path_exists(fs, "ckpt", a.prev_ckpt)
    THEN [exc |-> "FileNotFoundError", fs |-> fs]
    ELSE IF Truthy(a.log_dir) /\ ~path_isdir(fs, "logdir", a.log_dir)
    THEN IF path_exists(fs, "logdir", a.log_dir)
         THEN [exc |-> "FileExistsError", fs |-> fs]
         ELSE [exc |-> "none", fs |-> [fs EXCEPT !.logdir = "dir"]]
    ELSE [exc |-> "none", fs |-> fs]

\* The validation of lines 119-127, in the code's order.  os.makedirs of a
\* path that exists and is no directory raises FileExistsError.
parse_args_validate(a, fs) ==
    IF ~path_exists(fs, "config", a.config)
    THEN [exc |-> "FileNotFoundError", fs |-> fs]
    ELSE IF Truthy(a.prev_ckpt) /\ ~path_exists(fs, "ckpt", a.prev_ckpt)
    THEN [exc |-> "FileNotFoundError", fs |-> fs]
    ELSE
    LET made == IF Truthy(a.log_dir) /\ ~path_isdir(fs, "logdir", a.log_dir)
                THEN IF path_exists(fs, "logdir", a.log_dir)
                     THEN [exc |-> "FileExistsError", fs |-> fs]
                     ELSE [exc |-> "none", fs |-> [fs EXCEPT !.logdir = "dir"]]
                ELSE [exc |-> "none", fs |-> fs]
    IN  IF made.exc # "none"
        THEN made
        ELSE IF a.resume /\ ~Truthy(a.prev_ckpt)
        THEN [exc |-> "ValueError", fs |-> made.fs]
        ELSE made

\* Lines 129-133: the three assignments from the loaded YAML, in order; the
\* first missing key raises KeyError and leaves the earlier assignments.
parse_args_load(a, fs) ==
    LET y == ConfigYaml(fs.config)
    IN  IF fs.config = "dir"
        THEN [exc |-> "IsADirectoryError", args |-> a]
        ELSE IF ~y.has_model_args
        THEN [exc |-> "KeyError", args |-> a]
        ELSE IF ~y.has_training_args
        THEN [exc |-> "KeyError",
              args |-> [a EXCEPT !.model_args = y.model_args, !.filled = {"model_args"}]]
        ELSE IF ~y.has_max_epochs
        THEN [exc |-> "KeyError",
              args |-> [a EXCEPT !.model_args = y.model_args,
                                 !.training_args = y.training_args,
                                 !.filled = {"model_args", "training_args"}]]
        ELSE [exc |-> "none",
              args |-> [a EXCEPT !.model_args = y.model_args,
                                 !.training_args = y.training_args,
                                 !.max_epochs = y.max_epochs,
                                 !.filled = {"model_args", "training_args", "max_epochs"}]]

parse_args(a, fs) ==
    LET v == parse_args_validate(a, fs)
        ld == parse_args_load(a, v.fs)
    IN  IF v.exc # "none"
        THEN [exc |-> v.exc, args |-> a, fs |-> v.fs]
        ELSE [exc |-> ld.exc, args |-> ld.args, fs |-> v.fs]

(***************************************************************************)
(* prepare_model (train.py 28-39): the checkpoint the weights are loaded   *)
(* from, None for a freshly built model.                                   *)
(***************************************************************************)
prepare_model(a) == IF Truthy(a.prev_ckpt) THEN a.prev_ckpt ELSE NoneVal

(***************************************************************************)
(* prepare_logger (train.py 42-78).  gen is what wandb.util.generate_id()  *)
(* returns when it is called.                                              *)
(***************************************************************************)
prepare_logger(a, fs, gen) ==
    IF a.fast_dev_run
    THEN [exc |-> "none", logger |-> NoneVal, log_path |-> NoneVal, name |-> "", fs |-> fs]
    ELSE
    LET logger_method == IF a.logger = NoneVal THEN "tensorboard" ELSE a.logger
        log_path == a.log_dir \o "/version_" \o a.version
        wandb_path == log_path \o "/wandb"
        run_uid == IF Truthy(a.uid) THEN a.uid ELSE gen
    IN  IF logger_method = "tensorboard"
        THEN [exc |-> "none", logger |-> "TensorBoardLogger", log_path |-> log_path,
              name |-> a.log_dir, fs |-> fs]
        ELSE IF logger_method = "wandb"
        THEN [exc |-> "none", logger |-> "WandbLogger", log_path |-> wandb_path,
              name |-> "vidnet_" \o a.version \o "_" \o run_uid,
              fs |-> IF ~fs.wandb THEN [fs EXCEPT !.wandb = TRUE] ELSE fs]
        ELSE [exc |-> "NotImplementedError", logger |-> NoneVal, log_path |-> NoneVal,
              name |-> "", fs |-> fs]

\* A slip: the callbacks installed whatever fast_dev_run says.
callbacks_always(a) ==
    <<"ModelSummary", "TQDMProgressBar", "ModelCheckpoint", "LearningRateMonitor">>

\* The callback list of line 96.
train_callbacks(a) ==
    IF a.fast_dev_run
    THEN <<>>
    ELSE <<"ModelSummary", "TQDMProgressBar", "ModelCheckpoint", "LearningRateMonitor">>

\* num_gpus of lines 97-100.
num_gpus(a) ==
    IF a.fast_dev_run
    THEN PyInt(1)
    ELSE IF PyEq(a.gpus, PyInt(-1)) THEN PyStr("auto") ELSE a.gpus

\* A slip: the checkpoint handed to fit whether or not resume is set.
fit_ckpt_path_always_prev(a) == a.prev_ckpt

\* The ckpt_path handed to trainer.fit (line 115).
fit_ckpt_path(a) == IF a.resume THEN a.prev_ckpt ELSE NoneVal

(***************************************************************************)
(* train (train.py 81-115) up to and including the call of trainer.fit.    *)
(* loaded says whether VIDNetPLWrapper.load_from_checkpoint succeeded.     *)
(***************************************************************************)
train(a, fs, gen, loaded) ==
    LET lg == prepare_logger(a, fs, gen)
    IN  IF Truthy(a.prev_ckpt) /\ ~loaded
        THEN [exc |-> "CheckpointLoadError", fs |-> fs, run |-> NoRun]
        ELSE IF lg.exc # "none"
        THEN [exc |-> lg.exc, fs |-> lg.fs,
              run |-> [NoRun EXCEPT !.model_from = prepare_model(a)]]
        ELSE [exc |-> "none", fs |-> lg.fs,
              run |-> [model_from |-> prepare_model(a),
                       logger |-> lg.logger,
                       log_path |-> lg.log_path,
                       ckpt_dirpath |-> Str(lg.log_path) \o "/checkpoints",
                       ckpt_filename |->
                           (IF a.pre # "" THEN a.pre \o "-" ELSE "")
                               \o "{epoch:02d}-{val_f1:.4f}-{val_jaccard:.4f}",
                       callbacks |-> train_callbacks(a),
                       devices |-> num_gpus(a),
                       max_epochs |-> a.max_epochs,
                       fast_dev_run |-> a.fast_dev_run,
                       enable_checkpointing |-> ~a.fast_dev_run,
                       watched |-> (lg.logger = "WandbLogger"),
                       trainer |-> TRUE,
                       fit |-> TRUE,
                       fit_ckpt_path |-> fit_ckpt_path(a)]]

(***************************************************************************)
(* misc/config.py: the phase enum and db_read_sequences.                   *)
(***************************************************************************)
\* class phase(Enum), lines 16-20: a plain Enum, whose members equal only
\* themselves (never the str that is their value).
phase_TRAIN == PyEnum("train")
phase_VAL == PyEnum("val")
phase_TESTDEV == PyEnum("test-dev")
phase_TRAINVAL == PyEnum("train-val")

\* cfg.PATH.SEQUENCES as config.py sets it (line 55) and as DAVISLoader resets it.
InitialSequencesPath == "/#FIXME/model/opn-demo/vi_davis"
ValSequencesPath == "/vulcan/scratch/pengzhou/model/Deep-Video-Inpainting/results/vi_davis/val"
TrainSequencesPath == "/vulcan/scratch/pengzhou/model/opn-demo/vi_davis/train"

\* The sequence names of the database, in database order.
SeqNames == <<"bear", "camel">>
MaxFrames == 4
MaxClipLen == 2

\* The database entries: db_info.yaml gives each sequence a name, a year and
\* a set, the set a plain string.
SetNames == {"train", "val", "test-dev"}
DbYears == {2016, 2017}
Databases ==
    UNION { { d \in [1..n -> [name : {SeqNames[k] : k \in 1..Len(SeqNames)},
                              year : DbYears,
                              set : {PyStr(t) : t \in SetNames}]] :
                \A k \in 1..n : d[k].name = SeqNames[k] } : n \in 0..Len(SeqNames) }

\* int() of the year strings and of a frame file's stem (two decimal digits).
int_of_year(y) ==
    CASE y = "2015" -> 2015 [] y = "2016" -> 2016 [] y = "2017" -> 2017 [] y = "2018" -> 2018
int_of_stem(st) == st[1] * 10 + st[2]
\* The stem of the n-th frame's file name, DAVIS naming (frame numbers from 0).
stem_of_frame(n) == <<n \div 10, n % 10>>

\* os.path.isdir(osp.join(cfg.PATH.SEQUENCES, name)).  The model holds one
\* directory tree, the one below the configured root.
seq_isdir(root, name) == root # "" /\ dirs[name].isdir

\* The year filter of line 104.
passes_year(s, year) == year = NoneVal \/ s.year <= int_of_year(year)

\* The phase filter of lines 106-112.
passes_phase(s, db_phase, root) ==
    IF db_phase.kind = "none" THEN TRUE
    ELSE IF PyEq(db_phase, phase_TRAINVAL)
    THEN PyEq(s.set, phase_VAL) \/ PyEq(s.set, phase_TRAIN)
    ELSE PyEq(s.set, db_phase) /\ seq_isdir(root, s.name)

\* db_read_sequences (lines 98-113) returns a lazy filter object over the
\* database list: pos counts the entries of the list it has consumed.
db_read_sequences(year, db_phase) == [year |-> year, phase |-> db_phase, pos |-> 0]

NoIterator == [year |-> NoneVal, phase |-> PyNone, pos |-> 0]

\* The entries a filter object still yields when iterated to its end, and
\* the object after that (cfg.PATH.SEQUENCES is read when an entry is tested).
RECURSIVE drain(_, _, _)
drain(it, d, root) ==
    IF it.pos >= Len(d)
    THEN <<>>
    ELSE LET s == d[it.pos + 1]
             rest == drain([it EXCEPT !.pos = it.pos + 1], d, root)
         IN  IF passes_year(s, it.year) /\ passes_phase(s, it.phase, root)
             THEN <<s>> \o rest
             ELSE rest
exhausted(it, d) == [it EXCEPT !.pos = Len(d)]

\* The filter object after it has yielded n entries (zip stops asking once
\* its first argument is exhausted).
RECURSIVE advance(_, _, _, _)
advance(it, d, root, n) ==
    IF n = 0 \/ it.pos >= Len(d)
    THEN it
    ELSE LET s == d[it.pos + 1]
             nx == [it EXCEPT !.pos = it.pos + 1]
         IN  IF passes_year(s, it.year) /\ passes_phase(s, it.phase, root)
             THEN advance(nx, d, root, n - 1)
             ELSE advance(nx, d, root, n)

(***************************************************************************)
(* src/dataloader/davis2017.py: DAVISLoader.                               *)
(***************************************************************************)
\* The sorted frame files of a directory holding n frames, as their stems.
frame_files(n) == [i \in 1..n |-> stem_of_frame(i - 1)]

\* Sequence(phase, name) and Annotation(phase, name, single_object): the
\* object's name and its sorted files.
Sequence(name) == [name |-> name, files |-> frame_files(dirs[name].img)]
Annotation(name) == [name |-> name, files |-> frame_files(dirs[name].ann)]

\* _numframes of a clip built over a sequence or annotation object.
numframes(obj) == Len(obj.files)

\* int(num_frames / length_clip) for num_frames >= 0 and length_clip > 0.
num_clips_of(num_frames, length_clip) == num_frames \div length_clip

\* The loop of lines 171-174 (and 204-207): idx is the loop's start index so
\* far, left the iterations still to run.
RECURSIVE slice_loop(_, _, _, _)
slice_loop(obj, length_clip, idx, left) ==
    IF left <= 0
    THEN [exc |-> "none", clips |-> <<>>]
    ELSE LET nidx == idx + length_clip
         IN  IF nidx + 1 > Len(obj.files)
             THEN [exc |-> "IndexError", clips |-> <<>>]
             ELSE LET r == slice_loop(obj, length_clip, nidx, left - 1)
                      c == [name |-> obj.name,
                            starting_frame |-> int_of_stem(obj.files[nidx + 1])]
                  IN  [exc |-> r.exc, clips |-> <<c>> \o r.clips]

\* A slip: the loop running num_clips times instead of num_clips - 1.
slice_one_off_by_one(obj, length_clip) ==
    IF Len(obj.files) = 0
    THEN [exc |-> "IndexError", clips |-> <<>>]
    ELSE LET first == [name |-> obj.name, starting_frame |-> int_of_stem(obj.files[1])]
         IN  IF length_clip = 0
             THEN [exc |-> "ZeroDivisionError", clips |-> <<first>>]
             ELSE LET r == slice_loop(obj, length_clip, 0,
                                      num_clips_of(numframes(obj), length_clip))
                  IN  [exc |-> r.exc, clips |-> <<first>> \o r.clips]

\* The clips one sequence (lines 161-174) or annotation (193-207) adds.
slice_one(obj, length_clip) ==
    IF Len(obj.files) = 0
    THEN [exc |-> "IndexError", clips |-> <<>>]
    ELSE LET first == [name |-> obj.name, starting_frame |-> int_of_stem(obj.files[1])]
         IN  IF length_clip = 0
             THEN [exc |-> "ZeroDivisionError", clips |-> <<first>>]
             ELSE LET r == slice_loop(obj, length_clip, 0,
                                      num_clips_of(numframes(obj), length_clip) - 1)
                  IN  [exc |-> r.exc, clips |-> <<first>> \o r.clips]

\* The clip the use_prev_mask branch (lines 178-186) adds for a sequence:
\* it starts at the first annotated frame.
prev_mask_clip(obj) ==
    LET annotations == frame_files(dirs[obj.name].ann)
    IN  IF Len(annotations) = 0
        THEN [exc |-> "IndexError", clips |-> <<>>]
        ELSE [exc |-> "none",
              clips |-> << [name |-> obj.name,
                            starting_frame |-> int_of_stem(annotations[1])] >>]

\* One pass of the loop of lines 157-186 (use_prev_mask as given) or 191-207.
clips_of(obj, length_clip, use_prev_mask) ==
    IF use_prev_mask THEN prev_mask_clip(obj) ELSE slice_one(obj, length_clip)

\* The loops of lines 157-186 and 191-207 over the loaded objects; the
\* first exception ends the loop and keeps the clips appended so far.  done
\* counts the objects zip has handed to the loop body.
RECURSIVE clip_loop(_, _, _, _)
clip_loop(objs, k, length_clip, use_prev_mask) ==
    IF k > Len(objs)
    THEN [exc |-> "none", clips |-> <<>>, done |-> 0]
    ELSE LET one == clips_of(objs[k], length_clip, use_prev_mask)
         IN  IF one.exc # "none"
             THEN [exc |-> one.exc, clips |-> one.clips, done |-> 1]
             ELSE LET r == clip_loop(objs, k + 1, length_clip, use_prev_mask)
                  IN  [exc |-> r.exc, clips |-> one.clips \o r.clips, done |-> r.done + 1]

\* A slip: any year passing the assertion of line 116.
year_asserted_any(year) == TRUE

\* The assertion of line 116.
year_asserted(year) == year = "2017" \/ year = "2016"

\* The single_object check of lines 126-127.
single_object_refused(single_object, year) == single_object /\ year # "2016"

NoLoader ==
    [year |-> "", phase |-> "", single_object |-> FALSE, length_clip |-> 0,
     use_prev_mask |-> FALSE, has |-> {}, sequences |-> <<>>, annotations |-> <<>>,
     sequence_clips |-> <<>>, annotation_clips |-> <<>>, db_sequences |-> NoIterator]

\* DAVISLoader.__init__ (lines 54-219), as far as the claims reach: the
\* attributes set, the exception raised and cfg.PATH.SEQUENCES afterwards.
DAVISLoader_init(year, split, single_object, length_clip, use_prev_mask, d) ==
    LET root == IF split = "val" THEN ValSequencesPath ELSE TrainSequencesPath
        s0 == [NoLoader EXCEPT !.year = year, !.phase = split,
                               !.single_object = single_object,
                               !.length_clip = length_clip,
                               !.use_prev_mask = use_prev_mask]
        it == db_read_sequences(year, PyStr(split))
        selected == drain(it, d, root)
        sequences == [k \in 1..Len(selected) |-> Sequence(selected[k].name)]
        annotations == [k \in 1..Len(selected) |-> Annotation(selected[k].name)]
        s1 == [s0 EXCEPT !.sequences = sequences, !.annotations = annotations,
                         !.has = {"sequences", "annotations"},
                         !.db_sequences = exhausted(it, d)]
        sc == clip_loop(sequences, 1, length_clip, use_prev_mask)
        s2 == [s1 EXCEPT !.sequence_clips = sc.clips,
                         !.has = @ \cup {"sequence_clips"},
                         !.db_sequences = advance(it, d, root, sc.done)]
        ac == clip_loop(annotations, 1, length_clip, FALSE)
        s3 == [s2 EXCEPT !.annotation_clips = ac.clips,
                         !.has = @ \cup {"annotation_clips"},
                         !.db_sequences = advance(it, d, root, ac.done)]
    IN  IF ~year_asserted(year)
        THEN [exc |-> "AssertionError", self |-> s0, root |-> root]
        ELSE IF single_object_refused(single_object, year)
        THEN [exc |-> "Exception", self |-> s0, root |-> root]
        ELSE IF sc.exc # "none"
        THEN [exc |-> sc.exc, self |-> s2, root |-> root]
        ELSE IF ac.exc # "none"
        THEN [exc |-> ac.exc, self |-> s3, root |-> root]
        ELSE [exc |-> "none", self |-> s3, root |-> root]

(***************************************************************************)
(* main (train.py 139-208): parse_args, then train.                        *)
(***************************************************************************)
NameSet == {SeqNames[k] : k \in 1..Len(SeqNames)}

\* The last call's arguments (year, db_phase, sid) and result: the entries
\* yielded (items), the clips returned (images, annotations, as lists of at
\* most one clip) or the exception raised.
NoOut ==
    [call |-> "none", year |-> NoneVal, db_phase |-> PyNone, sid |-> 0,
     exc |-> "none", items |-> <<>>, images |-> <<>>, annotations |-> <<>>]

GeneratedIds == {"g1", "g2"}

LoaderIdle ==
    /\ lpc = "idle"
    /\ db = <<>>
    /\ dirs = [n \in NameSet |-> [isdir |-> FALSE, img |-> 0, ann |-> 0]]
    /\ cfgPathSequences = InitialSequencesPath
    /\ self = NoLoader
    /\ lexc = "none"
    /\ out = NoOut

TrainInit ==
    /\ tpc = "main"
    /\ args \in ArgSets
    /\ osfs \in FileSystems
    /\ exc = "none"
    /\ run = NoRun
    /\ LoaderIdle

main_parse_args ==
    /\ tpc = "main"
    /\ LET r == parse_args(args, osfs)
       IN  /\ args' = r.args
           /\ osfs' = r.fs
           /\ exc' = r.exc
           /\ tpc' = IF r.exc = "none" THEN "parsed" ELSE "raised"
    /\ UNCHANGED run
    /\ UNCHANGED loader_vars

main_train ==
    /\ tpc = "parsed"
    /\ \E gen \in GeneratedIds, loaded \in BOOLEAN :
          LET r == train(args, osfs, gen, loaded)
          IN  /\ osfs' = r.fs
              /\ exc' = r.exc
              /\ run' = r.run
              /\ tpc' = IF r.exc = "none" THEN "fit" ELSE "train_raised"
    /\ UNCHANGED args
    /\ UNCHANGED loader_vars

TrainNext == main_parse_args \/ main_train

SpecTrain == TrainInit /\ [][TrainNext]_vars

(***************************************************************************)
(* The loader scenario: a database and a directory tree; then either a     *)
(* direct call of db_read_sequences, or the construction of a DAVISLoader  *)
(* followed by calls of its accessors.                                     *)
(***************************************************************************)
\* A sequence's directory: absent, or holding img frame files and ann
\* annotation files (as many, or one annotation more).
DirStates ==
    [isdir : {FALSE}, img : {0}, ann : {0}]
        \cup { t \in [isdir : {TRUE}, img : 0..MaxFrames, ann : 0..MaxFrames] :
                 t.ann = t.img \/ (t.img >= 1 /\ t.ann = t.img + 1) }

TrainIdle ==
    /\ tpc = "idle"
    /\ args = NoArgs
    /\ osfs = NoFiles
    /\ exc = "none"
    /\ run = NoRun

LoaderInit ==
    /\ lpc = "new"
    /\ db \in Databases
    /\ dirs \in [NameSet -> DirStates]
    /\ cfgPathSequences = InitialSequencesPath
    /\ self = NoLoader
    /\ lexc = "none"
    /\ out = NoOut
    /\ TrainIdle

YearArgs == {"2015", "2016", "2017"}
PhaseArgs ==
    {PyNone, PyStr("train"), PyStr("val"),
     phase_TRAIN, phase_VAL, phase_TESTDEV, phase_TRAINVAL}

\* list(db_read_sequences(year, db_phase)) under the configured paths.
call_db_read_sequences ==
    /\ lpc = "new"
    /\ \E year \in {NoneVal, "2016", "2017"}, db_phase \in PhaseArgs :
          out' = [NoOut EXCEPT !.call = "db_read_sequences",
                               !.year = year,
                               !.db_phase = db_phase,
                               !.items = drain(db_read_sequences(year, db_phase),
                                               db, cfgPathSequences)]
    /\ lpc' = "read"
    /\ UNCHANGED <<db, dirs, cfgPathSequences, self, lexc>>
    /\ UNCHANGED train_vars

\* DAVISLoader(args, split=..., use_prev_mask=...).
construct ==
    /\ lpc = "new"
    /\ \E year \in YearArgs, split \in {"train", "val"}, single_object \in BOOLEAN,
          length_clip \in 0..MaxClipLen, use_prev_mask \in BOOLEAN :
          LET r == DAVISLoader_init(year, split, single_object, length_clip,
                                    use_prev_mask, db)
          IN  /\ self' = r.self
              /\ lexc' = r.exc
              /\ cfgPathSequences' = r.root
              /\ lpc' = IF r.exc = "none" THEN "constructed" ELSE "failed"
    /\ UNCHANGED <<db, dirs, out>>
    /\ UNCHANGED train_vars

\* list(loader.iternames()) (lines 265-268): what the stored filter object
\* still yields; iterating it consumes it.
iternames ==
    /\ lpc = "constructed"
    /\ out' = [NoOut EXCEPT !.call = "iternames",
                            !.items = drain(self.db_sequences, db, cfgPathSequences)]
    /\ self' = [self EXCEPT !.db_sequences = exhausted(self.db_sequences, db)]
    /\ UNCHANGED <<lpc, db, dirs, cfgPathSequences, lexc>>
    /\ UNCHANGED train_vars

\* loader.sequence_id_to_name(sid) for a valid index (lines 257-259):
\* subscripting a filter object raises TypeError.
sequence_id_to_name ==
    /\ lpc = "constructed"
    /\ \E sid \in 0..(Len(self.sequences) - 1) :
          out' = [NoOut EXCEPT !.call = "sequence_id_to_name", !.sid = sid,
                               !.exc = "TypeError"]
    /\ UNCHANGED <<lpc, db, dirs, cfgPathSequences, self, lexc>>
    /\ UNCHANGED train_vars

\* loader.get_raw_sample_clip(key) for an int key >= 0 (lines 235-247): the
\* indices valid in sequence_clips and the first one past them.
get_raw_sample_clip ==
    /\ lpc = "constructed"
    /\ \E sid \in 0..Len(self.sequence_clips) :
          out' = IF sid + 1 > Len(self.sequence_clips) \/ sid + 1 > Len(self.annotation_clips)
                 THEN [NoOut EXCEPT !.call = "get_raw_sample_clip", !.sid = sid,
                                    !.exc = "IndexError"]
                 ELSE [NoOut EXCEPT !.call = "get_raw_sample_clip", !.sid = sid,
                                    !.images = <<self.sequence_clips[sid + 1]>>,
                                    !.annotations = <<self.annotation_clips[sid + 1]>>]
    /\ UNCHANGED <<lpc, db, dirs, cfgPathSequences, self, lexc>>
    /\ UNCHANGED train_vars

LoaderNext ==
    \/ call_db_read_sequences
    \/ construct
    \/ iternames
    \/ sequence_id_to_name
    \/ get_raw_sample_clip

SpecLoader == LoaderInit /\ [][LoaderNext]_vars

\* Both scenarios together.
Init == TrainInit \/ LoaderInit
Next == TrainNext \/ LoaderNext
Spec == Init /\ [][Next]_vars


(***************************************************************************)
(* Claims about train.py, checked under SpecTrain.                         *)
(***************************************************************************)
ParseDone == tpc \in {"parsed", "raised"}
AllFilled == {"model_args", "training_args", "max_epochs"}
ConfigMissing == osfs.config = "missing"
CkptGiven == args.prev_ckpt # NoneVal /\ args.prev_ckpt # ""
CkptMissing == osfs.ckpt = "missing"
\* parse_args returned args with the three attributes filled from the config file.
ReturnedFilled ==
    /\ tpc = "parsed"
    /\ exc = "none"
    /\ args.filled = AllFilled
    /\ args.model_args = ConfigYaml(osfs.config).model_args
    /\ args.training_args = ConfigYaml(osfs.config).training_args
    /\ args.max_epochs = ConfigYaml(osfs.config).max_epochs
\* os.makedirs(args.log_dir) was attempted on a path that is a regular file.
LogDirIsFile == args.log_dir # "" /\ osfs.logdir = "file"

C2_ResumeCheckpoint ==
    tpc = "fit" =>
        /\ run.fit
        /\ args.resume => run.fit_ckpt_path = args.prev_ckpt
        /\ ~args.resume => run.fit_ckpt_path = NoneVal
        /\ CkptGiven => run.model_from = args.prev_ckpt
        /\ ~CkptGiven => run.model_from = NoneVal
        /\ args.resume => CkptGiven /\ ~CkptMissing

\* C2's cases: fit reached resuming from a checkpoint, and (in the same
\* run of the check) reachable only with the checkpoint given.
C2_Witness ==
    /\ tpc = "fit"
    /\ args.resume
    /\ run.fit_ckpt_path = CkptPath
    /\ run.model_from = CkptPath

\* C8: once train has built the Trainer, ModelCheckpoint is among the
\* callbacks exactly when enable_checkpointing is true, which is exactly
\* when fast_dev_run is false; with fast_dev_run the callback list is
\* empty, the logger None and devices 1; without it devices is "auto" for
\* gpus = -1 and the given list otherwise, and the checkpoint directory is
\* <log_path>/checkpoints with log_path not None.
HasModelCheckpoint ==
    \E k \in 1..Len(run.callbacks) : run.callbacks[k] = "ModelCheckpoint"

C8_CheckpointingMatchesRunMode ==
    run.trainer =>
        /\ HasModelCheckpoint <=> run.enable_checkpointing
        /\ run.enable_checkpointing <=> ~args.fast_dev_run
        /\ run.fast_dev_run = args.fast_dev_run
        /\ args.fast_dev_run =>
              /\ run.callbacks = <<>>
              /\ run.logger = NoneVal
              /\ run.devices.kind = "int" /\ run.devices.i = 1
        /\ ~args.fast_dev_run =>
              /\ (args.gpus.kind = "int" /\ args.gpus.i = -1)
                    => (run.devices.kind = "str" /\ run.devices.s = "auto")
              /\ ~(args.gpus.kind = "int" /\ args.gpus.i = -1)
                    => run.devices = args.gpus
              /\ run.log_path # NoneVal
              /\ run.ckpt_dirpath = run.log_path \o "/checkpoints"

\* C8's case: a full run with the checkpoint callback installed and the
\* GPU list [-1], which is not the default -1.
C8_Witness ==
    /\ run.trainer
    /\ ~args.fast_dev_run
    /\ HasModelCheckpoint
    /\ args.gpus.kind = "list"
    /\ run.devices = args.gpus
    /\ run.logger = "WandbLogger"

(***************************************************************************)
(* Claims about misc/config.py and DAVISLoader, checked under SpecLoader.  *)
(***************************************************************************)
ClipsNamed(clips, name) == SelectSeq(clips, LAMBDA c : c.name = name)
Max(a, b) == IF a >= b THEN a ELSE b
\* The loop over objs reached and finished its k-th object.
Sliced(objs, k) == \A j \in 1..k : Len(objs[j].files) >= 1

\* What C3 says of the clips appended for one object with N >= 1 files and
\* clip length L >= 1.
SlicedAsClaimed(obj, clips, L) ==
    LET N == Len(obj.files)
        mine == ClipsNamed(clips, obj.name)
    IN  /\ Len(mine) = Max(1, N \div L)
        /\ \A k \in 0..(Len(mine) - 1) :
              /\ k * L < N
              /\ mine[k + 1].starting_frame = int_of_stem(obj.files[k * L + 1])
              /\ N >= L => k * L + L <= N

\* C3: for a sequence with N >= 1 frame files and clip length L >= 1 the
\* slicing appends exactly max(1, floor(N / L)) clips, the k-th starting at
\* the frame of the file with index k*L of the sorted list, every index
\* used below N, and k*L + L <= N when N >= L; for image clips when
\* use_prev_mask is False, for annotation clips always.
C3_ClipSlicing ==
    self.length_clip >= 1 =>
        /\ ("sequence_clips" \in self.has /\ ~self.use_prev_mask) =>
              \A k \in 1..Len(self.sequences) :
                 Sliced(self.sequences, k) =>
                    SlicedAsClaimed(self.sequences[k], self.sequence_clips, self.length_clip)
        /\ "annotation_clips" \in self.has =>
              \A k \in 1..Len(self.annotations) :
                 Sliced(self.annotations, k) =>
                    SlicedAsClaimed(self.annotations[k], self.annotation_clips,
                                    self.length_clip)

\* C3's case: a sequence of four frames cut into two clips of length two,
\* the second starting at frame 2.
C3_Witness ==
    /\ lpc = "constructed"
    /\ ~self.use_prev_mask
    /\ self.length_clip = 2
    /\ \E k \in 1..Len(self.sequences) :
          /\ Len(self.sequences[k].files) = 4
          /\ Len(ClipsNamed(self.sequence_clips, self.sequences[k].name)) = 2
          /\ ClipsNamed(self.sequence_clips, self.sequences[k].name)[2].starting_frame = 2

\* Each loaded sequence has as many image files as annotation files.
SameFileCounts ==
    \A k \in 1..Len(self.sequences) :
       Len(self.sequences[k].files) = Len(self.annotations[k].files)

\* C4 as stated: after construction with either value of use_prev_mask
\* (each sequence having as many image files as annotation files),
\* sequence_clips and annotation_clips have the same length, and
\* get_raw_sample_clip(i) for an index i valid in sequence_clips returns an
\* image clip and an annotation clip of the same sequence with the same
\* starting frame.
C4_AsStated ==
    (lpc = "constructed" /\ SameFileCounts) =>
        /\ Len(self.sequence_clips) = Len(self.annotation_clips)
        /\ (out.call = "get_raw_sample_clip" /\ out.sid < Len(self.sequence_clips)) =>
              /\ out.exc = "none"
              /\ Len(out.images) = 1
              /\ Len(out.annotations) = 1
              /\ out.images[1].name = out.annotations[1].name
              /\ out.images[1].starting_frame = out.annotations[1].starting_frame

NothingLoaded ==
    /\ self.has = {}
    /\ self.sequences = <<>>
    /\ self.annotations = <<>>
    /\ self.sequence_clips = <<>>
    /\ self.annotation_clips = <<>>

\* C5: construction fails with an assertion error when the year is neither
\* "2016" nor "2017", and with an Exception when single_object is true and
\* the year is not "2016"; in both cases nothing is loaded; so a loader is
\* constructed only for a valid year/single_object combination.
C5_YearAndSingleObject ==
    lpc \in {"constructed", "failed"} =>
        /\ self.year \notin {"2016", "2017"} =>
              lpc = "failed" /\ lexc = "AssertionError" /\ NothingLoaded
        /\ (self.year \in {"2016", "2017"} /\ self.single_object /\ self.year # "2016") =>
              lpc = "failed" /\ lexc = "Exception" /\ NothingLoaded
        /\ lpc = "constructed" =>
              /\ self.year \in {"2016", "2017"}
              /\ self.single_object => self.year = "2016"

\* C5's case: single_object refused for the year 2017.
C5_Witness ==
    /\ lpc = "failed"
    /\ lexc = "Exception"
    /\ self.year = "2017"
    /\ self.single_object
    /\ NothingLoaded

\* The filters as C6 states them.
ClaimedYearFilter(s, year) == year = NoneVal \/ s.year <= int_of_year(year)
ClaimedPhaseFilter(s, db_phase) ==
    \/ db_phase.kind = "none"
    \/ /\ db_phase = phase_TRAINVAL
       /\ s.set.s \in {"train", "val"}
    \/ /\ db_phase.kind # "none"
       /\ db_phase # phase_TRAINVAL
       /\ PyEq(s.set, db_phase)
       /\ dirs[s.name].isdir

\* C6 as stated: db_read_sequences(year, db_phase) returns exactly the
\* database's sequences that pass both filters, in database order: year
\* <= the given year; for phase.TRAINVAL the set train or val, for any other
\* db_phase the set equal to db_phase and the sequence directory existing;
\* a filter whose argument is None is not applied.
C6_AsStated ==
    out.call = "db_read_sequences" =>
        out.items = SelectSeq(db, LAMBDA s : /\ ClaimedYearFilter(s, out.year)
                                             /\ ClaimedPhaseFilter(s, out.db_phase))

\* C7 as stated: after construction iternames() yields, on every call, one
\* entry per loaded sequence in the order of self.sequences, and
\* sequence_id_to_name(i) returns the name of self.sequences[i] for every
\* valid index i.
C7_AsStated ==
    /\ out.call = "iternames" =>
          /\ Len(out.items) = Len(self.sequences)
          /\ \A k \in 1..Len(out.items) : out.items[k].name = self.sequences[k].name
    /\ out.call = "sequence_id_to_name" =>
          /\ out.exc = "none"
          /\ Len(out.items) = 1
          /\ out.items[1].name = self.sequences[out.sid + 1].name

====
